---- MODULE Spec2Model ----
(***************************************************************************)
(* Model of the Telegram music bot (src/music_bot.py): the per-user search *)
(* session kept in context.user_data, the result-page renderer, the        *)
(* callback-button handler and the download job, run by the sequential     *)
(* update dispatcher that run_bot builds.                                  *)
(*                                                                         *)
(* Strings that the program encodes and decodes (callback data) are        *)
(* sequences of one-character strings.  File sizes are in MiB.             *)
(***************************************************************************)
EXTENDS Integers, Sequences, FiniteSets, TLC

\* ---------------------------------------------------------------- constants
RESULTS_PER_PAGE == 10
\* search_command: search_youtube(query, max_results=20)
MaxSearchResults == 20
\* ydl_opts['max_filesize'] = 50 * 1024 * 1024 bytes, in MiB
MAX_FILESIZE_MIB == 50
\* 'preferredquality': '192' (kbit/s of the MP3 that ffmpeg writes)
MP3_KBPS == 192

\* ------------------------------------------------------------------- bounds
NQueries == 2   \* distinct query strings the user types
MaxJobs == 1    \* download jobs started in one run
MaxQueue == 1   \* updates waiting in the dispatcher's queue
NSlots == 2     \* handler coroutines that could be alive at once
MaxPageArg == 2 \* largest stored page whose rendering is checked

\* The number of entries the search engine finds for query q (at most
\* max_results of them come back): 20, 3, 11, 19, ...
HitCount(q) == IF q = 1 THEN MaxSearchResults ELSE 8 * q - 13
\* Size of the source audio stream (MiB) and its bitrate (kbit/s).
SourceSizesMiB == {45, 70}
SourceKbps == {128, 192}

Slots == 1..NSlots
Queries == 1..NQueries

\* ------------------------------------------------------- Python primitives
Min(a, b) == IF a < b THEN a ELSE b
Max(a, b) == IF a > b THEN a ELSE b

\* dict: a function whose domain is the set of keys present
EmptyDict == [k \in {} |-> 0]
DictGet(d, k, default) == IF k \in DOMAIN d THEN d[k] ELSE default
DictSet(d, k, v) == [x \in (DOMAIN d) \cup {k} |-> IF x = k THEN v ELSE d[x]]

\* faulty variant of PySlice: the element at index a is left out
PySliceAfter(s, a, b) ==
    [k \in 1..((IF b < Len(s) THEN b ELSE Len(s)) - a - 1) |-> s[a + 1 + k]]
\* list[a:b] for a list s (Python slice semantics, 0-based, negative
\* indices count from the end)
PyIndex(i, n) == IF i < 0 THEN Max(n + i, 0) ELSE Min(i, n)
PySlice(s, a, b) ==
    LET lo == PyIndex(a, Len(s))
        hi == PyIndex(b, Len(s))
    IN  IF lo >= hi THEN <<>> ELSE [k \in 1..(hi - lo) |-> s[lo + k]]

Digits == <<"0", "1", "2", "3", "4", "5", "6", "7", "8", "9">>
DigitValue(c) == CHOOSE d \in 0..9 : Digits[d + 1] = c
IsDigit(c) == \E d \in 0..9 : Digits[d + 1] = c

\* str(n) for an integer n
RECURSIVE StrNat(_)
StrNat(n) == IF n < 10 THEN <<Digits[n + 1]>>
             ELSE StrNat(n \div 10) \o <<Digits[(n % 10) + 1]>>
Str(n) == IF n < 0 THEN <<"-">> \o StrNat(-n) ELSE StrNat(n)

\* int(s) for a string s; IntOk(s) is false where int() raises ValueError
RECURSIVE NatOf(_)
NatOf(s) == IF s = <<>> THEN 0
            ELSE 10 * NatOf(SubSeq(s, 1, Len(s) - 1)) + DigitValue(s[Len(s)])
AllDigits(s) == s # <<>> /\ \A i \in 1..Len(s) : IsDigit(s[i])
IntOk(s) == IF s # <<>> /\ s[1] = "-" THEN AllDigits(Tail(s)) ELSE AllDigits(s)
IntOf(s) == IF s[1] = "-" THEN 0 - NatOf(Tail(s)) ELSE NatOf(s)

\* s.split(sep) for a one-character separator
RECURSIVE Split(_, _)
Split(s, sep) ==
    IF \A i \in 1..Len(s) : s[i] # sep THEN <<s>>
    ELSE LET p == CHOOSE i \in 1..Len(s) :
                      s[i] = sep /\ \A j \in 1..(i - 1) : s[j] # sep
         IN  <<SubSeq(s, 1, p - 1)>> \o Split(SubSeq(s, p + 1, Len(s)), sep)

\* s.startswith(prefix)
StartsWith(s, prefix) ==
    Len(s) >= Len(prefix) /\ SubSeq(s, 1, Len(prefix)) = prefix

PAGE_PREFIX == <<"p", "a", "g", "e", "_">>
DL_PREFIX == <<"d", "l", "_">>
\* f"page_{n}" and f"dl_{n}"
PageData(n) == PAGE_PREFIX \o Str(n)
DlData(n) == DL_PREFIX \o Str(n)
\* faulty variant of DataArg: only the last character is read
DataArgLastDigit(data) == DigitValue(data[Len(data)])
\* int(data.split('_')[1])
DataArgOk(data) == Len(Split(data, "_")) >= 2 /\ IntOk(Split(data, "_")[2])
DataArg(data) == IntOf(Split(data, "_")[2])
\* callback data that no keyboard of this bot carries
ForeignData == {<<"n", "o", "o", "p">>}
\* The buttons the user goes on to press, out of those on screen: the
\* navigation buttons and the download buttons of these 0-based ranks.
PressedRanks == {2, 3, 10}
Pressed == {PageData(p) : p \in 0..2} \cup {DlData(k) : k \in PressedRanks}

\* ------------------------------------------------------------ search_youtube
\* entry.get('duration', 0) of entry i: absent or None (0 here), seconds
\* otherwise
EntryDurations == <<0, 59, 65, 600, 3599, 3600, 36000>>
EntryDuration(i) == EntryDurations[(i % Len(EntryDurations)) + 1]

\* The track built from entry i of the engine's answer to query q: the
\* entry's id, its title, its channel, f"{channel} - {title}" and its
\* duration (texts are sequences of tokens).
Track(q, i) ==
    [video_id |-> q * 100 + i,
     title |-> <<"t", q * 100 + i>>,
     artist |-> <<"a", q>>,
     full_name |-> <<"a", q>> \o <<" - ">> \o <<"t", q * 100 + i>>,
     duration |-> EntryDuration(i)]
NoTrack == [video_id |-> 0, title |-> <<>>, artist |-> <<>>,
            full_name |-> <<>>, duration |-> 0]

\* What search_youtube(query, max_results) returns.  outcome = "entries":
\* the engine answers with the entries found; "none": info is empty or has
\* no 'entries'; "raises": extract_info raises and the except clause
\* returns [].
SearchOutcomes == {"entries", "none", "raises"}
search_youtube(q, max_results, outcome) ==
    IF outcome = "entries"
    THEN [i \in 1..Min(HitCount(q), max_results) |-> Track(q, i)]
    ELSE <<>>

\* ------------------------------------------------------------ format_duration
\* the decimal digits of n, at least two of them
TwoDigits(n) == IF n < 10 THEN <<"0">> \o StrNat(n) ELSE StrNat(n)

\* str(timedelta(seconds=sec)) for sec >= 0: "H:MM:SS", after
\* "D day, " / "D days, " from one day on
TimedeltaStr(sec) ==
    LET days == sec \div 86400
        h == (sec % 86400) \div 3600
        mm == (sec % 3600) \div 60
        ss == sec % 60
        clock == StrNat(h) \o <<":">> \o TwoDigits(mm) \o <<":">>
                 \o TwoDigits(ss)
    IN  IF days = 0 THEN clock
        ELSE StrNat(days) \o <<" ", "d", "a", "y">>
             \o (IF days = 1 THEN <<>> ELSE <<"s">>) \o <<",", " ">> \o clock

\* s.lstrip(chars)
RECURSIVE LStrip(_, _)
LStrip(s, chars) ==
    IF s # <<>> /\ s[1] \in chars THEN LStrip(Tail(s), chars) ELSE s

UNKNOWN_DURATION == <<"?", "?", ":", "?", "?">>
\* format_duration(seconds); seconds = 0 stands for every falsy value
\* (0, None)
format_duration(seconds) ==
    IF seconds = 0 THEN UNKNOWN_DURATION
    ELSE LStrip(TimedeltaStr(seconds), {"0", ":"})

\* ----------------------------------------------------------- session (dict)
\* faulty variants of StoreSearch: the new tracks are appended to the old
\* ones; the page is not reset
StoreSearchMerging(ud, tracks) ==
    DictSet(DictSet(ud, "search_results",
                    DictGet(ud, "search_results", <<>>) \o tracks), "page", 0)
StoreSearchKeepingPage(ud, tracks) ==
    DictSet(DictSet(ud, "search_results", tracks), "page", DictGet(ud, "page", 0))
\* context.user_data['search_results'] = tracks; context.user_data['page'] = 0
StoreSearch(ud, tracks) ==
    DictSet(DictSet(ud, "search_results", tracks), "page", 0)

\* context.user_data['page'] = page
StorePage(ud, page) == DictSet(ud, "page", page)

\* --------------------------------------------------------- send_results_page
NoRender == [shown |-> FALSE, page_no |-> 0, page_count |-> 0,
             items |-> <<>>, nav |-> <<>>]

\* (len(tracks)-1)//per_page + 1, the page count of the header
PageCountFloor(total, per_page) == (total \div per_page) + 1
PageCount(total, per_page) == ((total - 1) \div per_page) + 1

\* if end_idx < len(tracks): the "next" button
HasNextWhenFull(end_idx, total) == end_idx <= total
HasNext(end_idx, total) == end_idx < total

\* What send_results_page puts on screen for the session ud
\* (shown = FALSE: the early return on an empty result list).
send_results_page(ud) ==
    LET tracks == DictGet(ud, "search_results", <<>>)
        page == DictGet(ud, "page", 0)
        per_page == RESULTS_PER_PAGE
        start_idx == page * per_page
        end_idx == Min(start_idx + per_page, Len(tracks))
        page_tracks == PySlice(tracks, start_idx, end_idx)
        prev == IF page > 0
                THEN <<[kind |-> "prev", callback_data |-> PageData(page - 1)]>>
                ELSE <<>>
        next == IF HasNext(end_idx, Len(tracks))
                THEN <<[kind |-> "next", callback_data |-> PageData(page + 1)]>>
                ELSE <<>>
    IN  IF tracks = <<>> THEN NoRender
        ELSE [shown |-> TRUE,
              page_no |-> page + 1,
              page_count |-> PageCount(Len(tracks), per_page),
              items |-> [k \in 1..Len(page_tracks) |->
                            [rank |-> start_idx + k,
                             track |-> page_tracks[k],
                             duration_str |->
                                 format_duration(page_tracks[k].duration),
                             callback_data |-> DlData(start_idx + k - 1)]],
              nav |-> prev \o next]

\* the callback data of every button of a rendered message
ButtonsOf(r) == {r.items[k].callback_data : k \in 1..Len(r.items)}
                \cup {r.nav[k].callback_data : k \in 1..Len(r.nav)}

\* ------------------------------------------------------------- button_handler
\* faulty variant of RankRejected: idx = len(tracks) passes
RankRejectedOffByOne(idx, tracks) == idx < 0 \/ idx > Len(tracks)
\* if idx < 0 or idx >= len(tracks): "not found"
RankRejected(idx, tracks) == idx < 0 \/ idx >= Len(tracks)

\* track = tracks[idx]   (Python index, 0-based, negative from the end)
\* IndexOk = FALSE: the subscript raises IndexError
IndexOk(tracks, idx) == 0 - Len(tracks) <= idx /\ idx < Len(tracks)
\* faulty variant of TrackAt: the rank is taken as 1-based
TrackAtOneBased(tracks, idx) == tracks[Max(idx, 1)]
TrackAt(tracks, idx) == IF idx < 0 THEN tracks[Len(tracks) + idx + 1]
                        ELSE tracks[idx + 1]

\* The audio message of reply_audio(audio=f, title=track['title'][:200],
\* performer=track['artist'][:200], caption=f"<note> {track['full_name']}",
\* duration=track.get('duration')).
NoAudio == [title |-> <<>>, performer |-> <<>>, caption |-> <<>>,
            duration |-> 0]
\* faulty variant of AudioMessage: title and performer are exchanged
AudioMessageSwapped(track) ==
    [title |-> PySlice(track.artist, 0, 200),
     performer |-> PySlice(track.title, 0, 200),
     caption |-> <<"note ">> \o track.full_name,
     duration |-> track.duration]
AudioMessage(track) ==
    [title |-> PySlice(track.title, 0, 200),
     performer |-> PySlice(track.artist, 0, 200),
     caption |-> <<"note ">> \o track.full_name,
     duration |-> track.duration]

\* ------------------------------------------------------ download_track_as_mp3
\* What ydl.extract_info(url, download=True) can do with the options of
\* ydl_opts: raised = it raises; info = its return value is truthy; files =
\* what it leaves under the job's output template (mib: the size of the
\* MP3, not recorded for other files).  max_filesize is compared
\* with the size of the source stream; the MP3 is written afterwards by the
\* FFmpegExtractAudio post-processor at MP3_KBPS.
YdlOutcomes(max_filesize) ==
    UNION {
        IF src > max_filesize
        THEN {[raised |-> FALSE, info |-> TRUE, files |-> {}]}
        ELSE {[raised |-> FALSE, info |-> TRUE,
               files |-> {[ext |-> "mp3", mib |-> (src * MP3_KBPS) \div kbps]}],
              \* the connection drops mid-download and the .part file
              \* stays, or ffmpeg fails and the source file stays
              [raised |-> TRUE, info |-> FALSE,
               files |-> {[ext |-> "part", mib |-> 0]}]}
        : src \in SourceSizesMiB, kbps \in SourceKbps }
    \cup {[raised |-> TRUE, info |-> FALSE, files |-> {}],
          [raised |-> FALSE, info |-> FALSE, files |-> {}],
          \* ffmpeg ends normally having written no audio data: the
          \* .mp3 is there and empty (mib = 0)
          [raised |-> FALSE, info |-> TRUE,
           files |-> {[ext |-> "mp3", mib |-> 0]}]}

\* The return value of download_track_as_mp3: TRUE = the .mp3 path,
\* FALSE = None.
FetchReturnsPath(o) ==
    ~o.raised /\ o.info /\ \E f \in o.files : f.ext = "mp3"

\* ---------------------------------------------------------------------- state
VARIABLES
    user_data,   \* context.user_data of the user (a dict)
    tasks,       \* the handler coroutine of each slot: position and locals
    queue,       \* the application's update queue, oldest first
    keyboards,   \* callback data of the buttons sent to the chat so far
    nextJob,     \* number of output templates drawn so far (uuid4 suffixes)
    files,       \* the files under /tmp: [job, ext]
    lastFound,   \* history: the tracks of the last search that found any,
                 \* since the process started
    lastReturned \* history: the tracks the last finished search returned,
                 \* since the process started

vars == <<user_data, tasks, queue, keyboards, nextJob, files, lastFound,
          lastReturned>>

NoUpdate == [type |-> "none", query |-> 0, data |-> <<>>]
\* the download job of a handler: the track taken from the session, the
\* number of its output template, what the fetch returned
\* (url: the video id the fetch was called with; audio: the message handed
\* to reply_audio)
NoJob == [id |-> 0, track |-> NoTrack, status |-> "none",
          reason |-> "", path |-> FALSE, mib |-> 0, url |-> 0,
          audio |-> NoAudio]
\* a handler: where it stands (pc), its update, its locals, the message it
\* last showed (response), the result page it last rendered (shown)
\* history: the state a handler started from
NoSnapshot == [user_data |-> EmptyDict, files |-> {}, nextJob |-> 0]
Snapshot == [user_data |-> user_data, files |-> files, nextJob |-> nextJob]
Idle == [pc |-> "idle", update |-> NoUpdate, tracks |-> <<>>, idx |-> 0,
         job |-> NoJob, response |-> "none", shown |-> NoRender,
         before |-> NoSnapshot]

Active == {s \in Slots : tasks[s].pc # "idle"}

\* /search <query> (query = 0: the command without arguments)
SearchUpdate(q) == [type |-> "search", query |-> q, data |-> <<>>]
\* a press of a button carrying data
CallbackUpdate(d) == [type |-> "callback", query |-> 0, data |-> d]

\* the updates the user can send in the current state
UserUpdates ==
    {SearchUpdate(q) : q \in 0..NQueries}
    \cup {CallbackUpdate(d) : d \in keyboards \cup ForeignData}

Init ==
    /\ user_data = EmptyDict
    /\ tasks = [s \in Slots |-> Idle]
    /\ queue = <<>>
    /\ keyboards = {}
    /\ nextJob = 1
    /\ files = {}
    /\ lastFound = <<>>
    /\ lastReturned = <<>>

\* ------------------------------------------------------------------ run_bot
\* Application.builder().token(...).build(): updates are not processed
\* concurrently, the next update is fetched when the handler of the previous
\* one has returned.
\* (faulty variant: a handler starts while another has not returned)
MayDispatchConcurrently(t) == \E s \in Slots : t[s].pc = "idle"
MayDispatch(t) == \A s \in Slots : t[s].pc = "idle"

\* An update reaches the bot's queue.
Arrive(u) ==
    /\ Len(queue) < MaxQueue
    /\ queue' = Append(queue, u)
    /\ UNCHANGED <<user_data, tasks, keyboards, nextJob, files, lastFound,
                   lastReturned>>

\* The dispatcher takes the oldest update and starts its handler:
\* CommandHandler("search", search_command) or
\* CallbackQueryHandler(button_handler).
Dispatch ==
    /\ queue # <<>>
    /\ MayDispatch(tasks)
    /\ LET s == CHOOSE x \in Slots : tasks[x].pc = "idle"
           u == Head(queue)
       IN  tasks' = [tasks EXCEPT ![s] =
                        [Idle EXCEPT !.update = u,
                                     !.before = Snapshot,
                                     !.pc = IF u.type = "search"
                                            THEN "sc_start" ELSE "bh_answer"]]
    /\ queue' = Tail(queue)
    /\ UNCHANGED <<user_data, keyboards, nextJob, files, lastFound,
                   lastReturned>>

\* The handler of slot s returns.
Finish(s) ==
    /\ tasks[s].pc \in {"sc_usage", "sc_edit", "sc_nothing", "bh_edit",
                        "bh_return", "bh_notfound", "dl_failed", "dl_sent",
                        "dl_error"}
    /\ tasks' = [tasks EXCEPT ![s] = Idle]
    /\ UNCHANGED <<user_data, queue, keyboards, nextJob, files, lastFound,
                   lastReturned>>

\* The process is restarted: user_data is kept in memory only; the chat and
\* its keyboards, the pending updates and /tmp survive.
Restart ==
    /\ Active = {}
    /\ user_data # EmptyDict
    /\ user_data' = EmptyDict
    /\ lastFound' = <<>>
    /\ lastReturned' = <<>>
    /\ UNCHANGED <<tasks, queue, keyboards, nextJob, files>>

\* ------------------------------------------------------------ search_command
\* if not context.args: reply with the usage text and return
SearchUsage(s) ==
    /\ tasks[s].pc = "sc_start"
    /\ tasks[s].update.query = 0
    /\ tasks' = [tasks EXCEPT ![s].pc = "sc_usage", ![s].response = "usage"]
    /\ UNCHANGED <<user_data, queue, keyboards, nextJob, files, lastFound,
                   lastReturned>>

\* status_msg = reply_text("searching"); await search_youtube(...)
SearchBegin(s) ==
    /\ tasks[s].pc = "sc_start"
    /\ tasks[s].update.query # 0
    /\ tasks' = [tasks EXCEPT ![s].pc = "sc_searching",
                              ![s].response = "searching"]
    /\ UNCHANGED <<user_data, queue, keyboards, nextJob, files, lastFound,
                   lastReturned>>

NothingFoundNever(tracks) == FALSE
\* if not tracks
NothingFound(tracks) == tracks = <<>>

\* search_youtube returns; the handler runs on to its next await:
\* "nothing found", or store the session and edit the status message into
\* the first page.
SearchReturn(s) ==
    /\ tasks[s].pc = "sc_searching"
    /\ \E outcome \in SearchOutcomes :
         LET found == search_youtube(tasks[s].update.query, MaxSearchResults,
                                     outcome)
             ud == StoreSearch(user_data, found)
             r == send_results_page(ud)
         IN  /\ lastReturned' = found
             /\ IF NothingFound(found)
                THEN /\ tasks' = [tasks EXCEPT ![s].pc = "sc_nothing",
                                               ![s].tracks = found,
                                               ![s].response = "nothing_found"]
                     /\ UNCHANGED <<user_data, keyboards, lastFound>>
                ELSE /\ user_data' = ud
                     /\ lastFound' = found
                     /\ keyboards' = keyboards \cup (ButtonsOf(r) \cap Pressed)
                     /\ tasks' = [tasks EXCEPT ![s].pc = "sc_edit",
                                               ![s].tracks = found,
                                               ![s].response = "results_page",
                                               ![s].shown = r]
    /\ UNCHANGED <<queue, nextJob, files>>

\* ------------------------------------------------------------- button_handler
\* await query.answer()
ButtonAnswer(s) ==
    /\ tasks[s].pc = "bh_answer"
    /\ tasks' = [tasks EXCEPT ![s].pc = "bh_branch"]
    /\ UNCHANGED <<user_data, queue, keyboards, nextJob, files, lastFound,
                   lastReturned>>

\* data.startswith('page_'): store the page; send_results_page edits the
\* message, or returns at once when there are no tracks.
ButtonPage(s) ==
    /\ tasks[s].pc = "bh_branch"
    /\ StartsWith(tasks[s].update.data, PAGE_PREFIX)
    /\ DataArgOk(tasks[s].update.data)
    /\ LET page == DataArg(tasks[s].update.data)
           ud == StorePage(user_data, page)
           r == send_results_page(ud)
       IN  /\ user_data' = ud
           /\ keyboards' = keyboards \cup (ButtonsOf(r) \cap Pressed)
           /\ tasks' = [tasks EXCEPT
                          ![s].pc = IF r.shown THEN "bh_edit" ELSE "bh_return",
                          ![s].response = IF r.shown THEN "results_page"
                                          ELSE "none",
                          ![s].shown = r]
    /\ UNCHANGED <<queue, nextJob, files, lastFound, lastReturned>>

\* data.startswith('dl_') with a rank the session does not have:
\* edit_message_text("track not found"), return.
ButtonDlRejected(s) ==
    /\ tasks[s].pc = "bh_branch"
    /\ ~StartsWith(tasks[s].update.data, PAGE_PREFIX)
    /\ StartsWith(tasks[s].update.data, DL_PREFIX)
    /\ DataArgOk(tasks[s].update.data)
    /\ LET idx == DataArg(tasks[s].update.data)
           tracks == DictGet(user_data, "search_results", <<>>)
       IN  /\ RankRejected(idx, tracks)
           /\ tasks' = [tasks EXCEPT ![s].pc = "bh_notfound", ![s].idx = idx,
                                     ![s].response = "not_found"]
    /\ UNCHANGED <<user_data, queue, keyboards, nextJob, files, lastFound,
                   lastReturned>>

\* data.startswith('dl_') with a rank of the session: take the track, reply
\* "downloading", call download_track_as_mp3 (a fresh output template) and
\* await the extraction.  An IndexError of tracks[idx] leaves the handler.
ButtonDlStart(s) ==
    /\ tasks[s].pc = "bh_branch"
    /\ ~StartsWith(tasks[s].update.data, PAGE_PREFIX)
    /\ StartsWith(tasks[s].update.data, DL_PREFIX)
    /\ DataArgOk(tasks[s].update.data)
    /\ nextJob <= MaxJobs
    /\ LET idx == DataArg(tasks[s].update.data)
           tracks == DictGet(user_data, "search_results", <<>>)
       IN  /\ ~RankRejected(idx, tracks)
           /\ IF IndexOk(tracks, idx)
              THEN /\ tasks' = [tasks EXCEPT
                                  ![s].pc = "dl_fetching",
                                  ![s].idx = idx,
                                  ![s].response = "downloading",
                                  ![s].job = [NoJob EXCEPT
                                                !.id = nextJob,
                                                !.track = TrackAt(tracks, idx),
                                                !.url =
                                                  TrackAt(tracks, idx).video_id,
                                                !.status = "Fetching"]]
                   /\ nextJob' = nextJob + 1
              ELSE /\ tasks' = [tasks EXCEPT ![s].pc = "bh_return",
                                             ![s].idx = idx]
                   /\ UNCHANGED nextJob
    /\ UNCHANGED <<user_data, queue, keyboards, files, lastFound,
                   lastReturned>>

\* neither prefix: the if/elif falls through
ButtonOtherResetsPage(s) ==
    /\ tasks[s].pc = "bh_branch"
    /\ ~StartsWith(tasks[s].update.data, PAGE_PREFIX)
    /\ ~StartsWith(tasks[s].update.data, DL_PREFIX)
    /\ tasks' = [tasks EXCEPT ![s].pc = "bh_return"]
    /\ user_data' = StorePage(user_data, 0)
    /\ UNCHANGED <<queue, keyboards, nextJob, files, lastFound, lastReturned>>

\* neither branch of button_handler matches: the function falls off its end
ButtonOther(s) ==
    /\ tasks[s].pc = "bh_branch"
    /\ ~StartsWith(tasks[s].update.data, PAGE_PREFIX)
    /\ ~StartsWith(tasks[s].update.data, DL_PREFIX)
    /\ tasks' = [tasks EXCEPT ![s].pc = "bh_return"]
    /\ UNCHANGED <<user_data, queue, keyboards, nextJob, files, lastFound,
                   lastReturned>>

\* os.remove(file_path)
RemoveFile(fs, j) == {f \in fs : ~(f.job = j /\ f.ext = "mp3")}

\* download_track_as_mp3 returns.  With a path whose file exists the handler
\* opens it and awaits reply_audio; otherwise it edits the status message
\* into "could not download".
FetchReturn(s) ==
    /\ tasks[s].pc = "dl_fetching"
    /\ \E o \in YdlOutcomes(MAX_FILESIZE_MIB) :
         LET j == tasks[s].job.id
             fs == files \cup {[job |-> j, ext |-> f.ext] : f \in o.files}
             file_path == FetchReturnsPath(o)
             exists == \E f \in fs : f.job = j /\ f.ext = "mp3"
             mib == IF \E f \in o.files : f.ext = "mp3"
                    THEN (CHOOSE f \in o.files : f.ext = "mp3").mib ELSE 0
         IN  /\ files' = fs
             /\ IF file_path /\ exists
                THEN tasks' = [tasks EXCEPT
                                 ![s].pc = "dl_delivering",
                                 ![s].job.status = "Delivering",
                                 ![s].job.path = TRUE,
                                 ![s].job.audio = AudioMessage(tasks[s].job.track),
                                 ![s].job.mib = mib]
                ELSE tasks' = [tasks EXCEPT
                                 ![s].pc = "dl_failed",
                                 ![s].response = "download_failed",
                                 ![s].job.status = "Failed",
                                 ![s].job.reason = "fetch",
                                 ![s].job.path = file_path]
    /\ UNCHANGED <<user_data, queue, keyboards, nextJob, lastFound,
                   lastReturned>>

\* reply_audio returns: os.remove(file_path), then await status_msg.delete().
DeliverOk(s) ==
    /\ tasks[s].pc = "dl_delivering"
    /\ files' = RemoveFile(files, tasks[s].job.id)
    /\ tasks' = [tasks EXCEPT ![s].pc = "dl_sent", ![s].response = "audio",
                              ![s].job.status = "Done"]
    /\ UNCHANGED <<user_data, queue, keyboards, nextJob, lastFound,
                   lastReturned>>

\* reply_audio raises: the except clause edits the status message into the
\* error text.
DeliverRaises(s) ==
    /\ tasks[s].pc = "dl_delivering"
    /\ tasks' = [tasks EXCEPT ![s].pc = "dl_error",
                              ![s].response = "download_error",
                              ![s].job.status = "Failed",
                              ![s].job.reason = "delivery"]
    /\ UNCHANGED <<user_data, queue, keyboards, nextJob, files, lastFound,
                   lastReturned>>

\* -------------------------------------------------------------- specification
Next ==
    \/ \E u \in UserUpdates : Arrive(u)
    \/ Dispatch
    \/ Restart
    \/ \E s \in Slots :
         \/ Finish(s)
         \/ SearchUsage(s)
         \/ SearchBegin(s)
         \/ SearchReturn(s)
         \/ ButtonAnswer(s)
         \/ ButtonPage(s)
         \/ ButtonDlRejected(s)
         \/ ButtonDlStart(s)
         \/ ButtonOther(s)
         \/ FetchReturn(s)
         \/ DeliverOk(s)
         \/ DeliverRaises(s)

Spec == Init /\ [][Next]_vars

\* The steps of a handler that the program and the transport take on their
\* own: every step but the return of the two engine calls run in the
\* executor (search_youtube, download_track_as_mp3), which are awaited
\* without a timeout.
OwnStep(s) ==
    \/ Finish(s)
    \/ SearchUsage(s)
    \/ SearchBegin(s)
    \/ ButtonAnswer(s)
    \/ ButtonPage(s)
    \/ ButtonDlRejected(s)
    \/ ButtonDlStart(s)
    \/ ButtonOther(s)
    \/ DeliverOk(s)
    \/ DeliverRaises(s)

\* The event loop runs every handler that can run and the dispatcher takes
\* every queued update.
SpecFair ==
    /\ Spec
    /\ WF_vars(Dispatch)
    /\ \A s \in Slots : WF_vars(OwnStep(s))

\* The renderer alone: send_results_page applied to every session of 1 to
\* max_results tracks and every stored page up to MaxPageArg.
InitRender ==
    /\ \E q \in Queries, n \in 1..MaxSearchResults, p \in 0..MaxPageArg :
         user_data = StorePage(StoreSearch(EmptyDict,
                                           [i \in 1..n |-> Track(q, i)]), p)
    /\ tasks = [s \in Slots |-> Idle]
    /\ queue = <<>>
    /\ keyboards = {}
    /\ nextJob = 1
    /\ files = {}
    /\ lastFound = <<>>
    /\ lastReturned = <<>>

RenderPage ==
    /\ tasks[1].pc = "idle"
    /\ LET r == send_results_page(user_data)
       IN  /\ tasks' = [tasks EXCEPT ![1].pc = "bh_edit",
                                     ![1].response = "results_page",
                                     ![1].shown = r]
           /\ keyboards' = ButtonsOf(r)
    /\ UNCHANGED <<user_data, queue, nextJob, files, lastFound, lastReturned>>

SpecRender == InitRender /\ [][RenderPage]_vars

TypeOK ==
    /\ DOMAIN user_data \subseteq {"search_results", "page"}
    /\ Len(queue) <= MaxQueue
    /\ nextJob <= MaxJobs + 1

\* --------------------------------------------------------------------- claims
Results == DictGet(user_data, "search_results", <<>>)
Page == DictGet(user_data, "page", 0)
Range(q) == {q[k] : k \in 1..Len(q)}
Returned == {"sc_usage", "sc_edit", "sc_nothing", "bh_edit", "bh_return",
             "bh_notfound", "dl_failed", "dl_sent", "dl_error"}
IsPagePress(u) == u.type = "callback" /\ StartsWith(u.data, PAGE_PREFIX)
IsDlPress(u) == u.type = "callback" /\ StartsWith(u.data, DL_PREFIX)
PAGE_1 == <<"p", "a", "g", "e", "_", "1">>
Mp3Left(j) == \E f \in files : f.job = j /\ f.ext = "mp3"
AnyFileLeft(j) == \E f \in files : f.job = j

\* C1: whenever the stored result list is non-empty, the stored page p
\* satisfies 0 <= p and p * 10 < len(results).
C1_StoredPageInRange ==
    Results # <<>> => Page >= 0 /\ Page * RESULTS_PER_PAGE < Len(Results)

\* C2: a download job that has ended, Done or Failed, has no file left at its
\* .mp3 path.
C2_EndedJobLeavesNoFile ==
    \A s \in Slots :
        tasks[s].job.status \in {"Done", "Failed"} => ~Mp3Left(tasks[s].job.id)

\* C3 as stated: when a search has completed, whatever it returned, the
\* stored result list is what it returned and the stored page is 0.
C3_EverySearchReplaces ==
    \A s \in Slots :
        tasks[s].pc \in {"sc_edit", "sc_nothing"}
            => Results = tasks[s].tracks /\ Page = 0

\* C3 as amended: when a search that found at least one track has completed,
\* the stored result list is exactly what it found and the stored page is 0.
C3_SearchWithHitsReplaces ==
    \A s \in Slots :
        tasks[s].pc = "sc_edit"
            => /\ DOMAIN user_data = {"search_results", "page"}
               /\ user_data["search_results"] = tasks[s].tracks
               /\ user_data["page"] = 0

\* C3 witness: a search that found tracks completes over a session with
\* another result list and page 1.
C3_Witness ==
    \E s \in Slots :
        /\ tasks[s].pc = "sc_edit"
        /\ DictGet(tasks[s].before.user_data, "page", 0) = 1
        /\ DictGet(tasks[s].before.user_data, "search_results", <<>>)
               \notin {<<>>, tasks[s].tracks}

C5_OversizeFailsAndLeavesNothing ==
    \A s \in Slots :
        /\ tasks[s].job.mib > MAX_FILESIZE_MIB
        /\ tasks[s].job.status \in {"Done", "Failed"}
        => tasks[s].job.status = "Failed" /\ ~AnyFileLeft(tasks[s].job.id)

\* C6: when download_track_as_mp3 has returned None, no file of that call is
\* on disk.
C6_FailedFetchLeavesNoFile ==
    \A s \in Slots :
        tasks[s].job.status = "Failed" /\ tasks[s].job.reason = "fetch"
            => ~AnyFileLeft(tasks[s].job.id)

\* C7: once the handler of a dl_<N> press with N outside 0..len(results)-1
\* has branched, it has answered "not found", has no download job, and the
\* files, the output templates drawn and the session are as they were.
C7_BadRankIsNotFound ==
    \A s \in Slots :
        /\ IsDlPress(tasks[s].update)
        /\ tasks[s].pc \notin {"idle", "bh_answer", "bh_branch"}
        /\ DataArg(tasks[s].update.data)
               \notin 0..(Len(DictGet(tasks[s].before.user_data,
                                      "search_results", <<>>)) - 1)
        => /\ tasks[s].pc = "bh_notfound"
           /\ tasks[s].response = "not_found"
           /\ tasks[s].job = NoJob
           /\ files = tasks[s].before.files
           /\ nextJob = tasks[s].before.nextJob
           /\ user_data = tasks[s].before.user_data

\* C7 witness: a rank that an earlier, longer result list offered is pressed
\* on a non-empty session and rejected.
C7_Witness ==
    \E s \in Slots :
        /\ tasks[s].pc = "bh_notfound"
        /\ Results # <<>>
        /\ tasks[s].idx >= Len(Results)

\* C8: the track of a download job for rank N is element N+1 of the result
\* list as the last search stored it.
C8_RankResolvesInStoredOrder ==
    \A s \in Slots :
        tasks[s].job.status # "none"
            => /\ tasks[s].idx + 1 \in 1..Len(lastFound)
               /\ tasks[s].job.track = lastFound[tasks[s].idx + 1]

\* C8 witness: a job for rank 2 starts while the stored page is 1.
C8_Witness ==
    \E s \in Slots :
        /\ tasks[s].pc = "dl_fetching"
        /\ tasks[s].idx = 2
        /\ Page = 1

\* C9: the handler of a page_<N> or dl_<N> press that found no session has,
\* when it returns, shown the user a message (no message of the program
\* says to search first; any message is taken for one) and left user_data
\* as it was.
C9_NoSessionAsksToSearch ==
    \A s \in Slots :
        /\ IsPagePress(tasks[s].update) \/ IsDlPress(tasks[s].update)
        /\ "search_results" \notin DOMAIN tasks[s].before.user_data
        /\ tasks[s].pc \in Returned
        => /\ tasks[s].response # "none"
           /\ user_data = tasks[s].before.user_data

C11_JobDeliversSelectedTrack ==
    \A s \in Slots :
        tasks[s].job.status \in {"Delivering", "Done"}
            \/ tasks[s].job.reason = "delivery"
        => LET sel == lastFound[tasks[s].idx + 1]
           IN  /\ tasks[s].job.url = sel.video_id
               /\ tasks[s].job.audio.title = sel.title
               /\ tasks[s].job.audio.performer = sel.artist
               /\ tasks[s].job.audio.caption = <<"note ">> \o sel.full_name

\* C11 witness: the audio of a job is with the transport while a new search
\* of the same user waits in the queue.
C11_Witness ==
    \E s \in Slots :
        /\ tasks[s].pc = "dl_delivering"
        /\ queue # <<>>
        /\ Head(queue).type = "search"
        /\ Head(queue).query # 0

\* C12: a job whose audio was handed to the transport had a path returned
\* by the fetch and a non-empty file there.
C12_DeliveryOnlyOfNonEmptyFile ==
    \A s \in Slots :
        tasks[s].job.status \in {"Delivering", "Done"}
            \/ tasks[s].job.reason = "delivery"
        => tasks[s].job.path /\ tasks[s].job.mib > 0

\* C13: every download job that has started fetching reaches Done or Failed.
C13_StartedJobEnds ==
    \A s \in Slots :
        (tasks[s].job.status = "Fetching")
            ~> (tasks[s].job.status \in {"Done", "Failed"})

\* ------------------------------------------------------ claims on rendering
\* ceil(total / RESULTS_PER_PAGE)
CeilPages(total) == (total + RESULTS_PER_PAGE - 1) \div RESULTS_PER_PAGE
NavOf(r, kind) == {r.nav[k] : k \in {j \in 1..Len(r.nav) : r.nav[j].kind = kind}}
IsPageDataFor(data, n) ==
    StartsWith(data, PAGE_PREFIX) /\ DataArgOk(data) /\ DataArg(data) = n
IsDlDataFor(data, n) ==
    /\ ~StartsWith(data, PAGE_PREFIX)
    /\ StartsWith(data, DL_PREFIX)
    /\ DataArgOk(data)
    /\ DataArg(data) = n

\* C14: a rendered page with a valid index p has a "previous" button exactly
\* when p > 0 and a "next" button exactly when p < pageCount - 1, carrying
\* page_<p-1> and page_<p+1>.
C14_NavButtonsMatchPage ==
    \A s \in Slots :
        LET r == tasks[s].shown
        IN  r.shown /\ Page >= 0 /\ Page < CeilPages(Len(Results))
            => /\ (NavOf(r, "prev") # {}) <=> (Page > 0)
               /\ (NavOf(r, "next") # {})
                      <=> (Page < CeilPages(Len(Results)) - 1)
               /\ \A b \in NavOf(r, "prev") :
                      IsPageDataFor(b.callback_data, Page - 1)
               /\ \A b \in NavOf(r, "next") :
                      IsPageDataFor(b.callback_data, Page + 1)
               /\ Len(r.nav) = Cardinality(NavOf(r, "prev") \cup NavOf(r, "next"))

\* C14 witness: the last page of a full result list, with "previous" only.
C14_Witness ==
    \E s \in Slots :
        /\ tasks[s].shown.shown
        /\ Len(Results) = MaxSearchResults
        /\ Page = 1
        /\ NavOf(tasks[s].shown, "prev") # {}

\* C15: the page count of the header satisfies
\* pageCount * 10 >= len(results) and (pageCount - 1) * 10 < len(results).
C15_PageCountIsCeiling ==
    \A s \in Slots :
        LET r == tasks[s].shown
        IN  r.shown
            => /\ r.page_count * RESULTS_PER_PAGE >= Len(Results)
               /\ (r.page_count - 1) * RESULTS_PER_PAGE < Len(Results)

\* C15 witness: a result list of exactly one full page.
C15_Witness ==
    \E s \in Slots :
        tasks[s].shown.shown /\ Len(Results) = RESULTS_PER_PAGE

\* C16: the callback data of every track button decodes, in the dl_ branch,
\* to the track's 0-based rank, and that of every navigation button, in the
\* page_ branch, to its target page.
C16_CallbackDataRoundTrip ==
    \A s \in Slots :
        LET r == tasks[s].shown
        IN  r.shown
            => /\ \A k \in 1..Len(r.items) :
                      /\ IsDlDataFor(r.items[k].callback_data,
                                     r.items[k].rank - 1)
                      /\ r.items[k].rank - 1 < Len(Results)
               /\ \A b \in NavOf(r, "prev") :
                      IsPageDataFor(b.callback_data, r.page_no - 2)
               /\ \A b \in NavOf(r, "next") :
                      IsPageDataFor(b.callback_data, r.page_no)

\* C16 witness: a page with a two-digit rank and a navigation button.
C16_Witness ==
    \E s \in Slots :
        LET r == tasks[s].shown
        IN  /\ r.shown
            /\ \E k \in 1..Len(r.items) : r.items[k].rank - 1 = 19
            /\ r.nav # <<>>

\* C17: page p of n tracks lists exactly the tracks of the 1-based ranks
\* p*10+1 .. min(n, (p+1)*10) in stored order, each numbered with its rank
\* and carrying the download callback of its rank minus one.
C17_PageListsItsRanks ==
    \A s \in Slots :
        LET r == tasks[s].shown
            first == Page * 10 + 1
            last == Min(Len(Results), (Page + 1) * 10)
        IN  r.shown
            => /\ Len(r.items) = Max(0, last - first + 1)
               /\ \A k \in 1..Len(r.items) :
                      /\ r.items[k].rank = first + k - 1
                      /\ r.items[k].track = Results[first + k - 1]
                      /\ DataArg(r.items[k].callback_data) = first + k - 2

\* C17 witness: page 1 of 20 tracks, ranks 11 to 20.
C17_Witness ==
    \E s \in Slots :
        LET r == tasks[s].shown
        IN  /\ r.shown
            /\ Len(Results) = 20
            /\ Page = 1
            /\ Len(r.items) = 10
            /\ r.items[1].rank = 11

\* mm:ss with two digits each, worth d seconds
IsMinSec(t, d) ==
    /\ Len(t) = 5
    /\ t[3] = ":"
    /\ \A i \in {1, 2, 4, 5} : IsDigit(t[i])
    /\ DigitValue(t[1]) * 10 + DigitValue(t[2]) = d \div 60
    /\ DigitValue(t[4]) * 10 + DigitValue(t[5]) = d % 60
\* h:mm:ss
IsHourMinSec(t) ==
    /\ Len(t) >= 7
    /\ t[Len(t) - 2] = ":"
    /\ t[Len(t) - 5] = ":"
    /\ \A i \in 1..Len(t) : i \in {Len(t) - 2, Len(t) - 5} \/ IsDigit(t[i])

\* C18: the duration shown with a track is mm:ss for a positive duration
\* below one hour, h:mm:ss from one hour on, and "??:??" for an absent or
\* zero duration.
C18_DurationFormat ==
    \A s \in Slots :
        LET r == tasks[s].shown
        IN  \A k \in 1..Len(r.items) :
                LET d == r.items[k].track.duration
                    t == r.items[k].duration_str
                IN  /\ d = 0 => t = UNKNOWN_DURATION
                    /\ (0 < d /\ d < 3600) => IsMinSec(t, d)
                    /\ d >= 3600 => IsHourMinSec(t)

\* ------------------------------------------- claims on the remaining branches
\* C19: a callback whose data starts with neither page_ nor dl_ is ignored:
\* its handler returns without a reply, the session, the files and the job
\* counter are as they were when it was dispatched, no job exists, and the
\* handler can end so that the next update is served.
C19_ForeignCallbackIgnored ==
    \A s \in Slots :
        /\ tasks[s].update.type = "callback"
        /\ ~StartsWith(tasks[s].update.data, PAGE_PREFIX)
        /\ ~StartsWith(tasks[s].update.data, DL_PREFIX)
        /\ tasks[s].pc \notin {"idle", "bh_answer", "bh_branch"}
        => /\ tasks[s].pc = "bh_return"
           /\ tasks[s].response = "none"
           /\ tasks[s].job = NoJob
           /\ user_data = tasks[s].before.user_data
           /\ files = tasks[s].before.files
           /\ nextJob = tasks[s].before.nextJob
           /\ ENABLED Finish(s)

\* C19 witness: a foreign callback handled while page 1 of a session is
\* stored.
C19_Witness ==
    \E s \in Slots :
        /\ tasks[s].update.type = "callback"
        /\ tasks[s].update.data \in ForeignData
        /\ tasks[s].pc = "bh_return"
        /\ Results # <<>>
        /\ Page = 1

\* C20: a search that comes back empty leaves the session's results and
\* page as they were and answers "nothing found".
C20_EmptySearchKeepsSession ==
    \A s \in Slots :
        /\ tasks[s].update.type = "search"
        /\ tasks[s].pc \in {"sc_edit", "sc_nothing"}
        /\ tasks[s].tracks = <<>>
        => /\ user_data = tasks[s].before.user_data
           /\ tasks[s].response = "nothing_found"

\* C20 witness: an empty search after a session with page 1 stored.
C20_Witness ==
    \E s \in Slots :
        /\ tasks[s].update.type = "search"
        /\ tasks[s].pc = "sc_nothing"
        /\ tasks[s].tracks = <<>>
        /\ Len(Results) = MaxSearchResults
        /\ Page = 1

====
